---- MODULE Spec2Model ----
(***************************************************************************)
(* Model of the value-estimation core of rltf:                             *)
(*   - QRDQN  (rltf/models/qr_dqn.py): target selection, backup, quantile  *)
(*     regression loss;                                                    *)
(*   - BDQN, BDQN_TS, BDQN_IDS (rltf/models/bdqn.py): per-action Bayesian  *)
(*     linear regression posteriors and the operations run on them.        *)
(* Tensors are functions indexed from 0 as in the source.  float32 values  *)
(* are modelled as exact rationals <<numerator, denominator>>; the values  *)
(* fed to the graph are finite.                                            *)
(***************************************************************************)
EXTENDS Integers, Sequences, FiniteSets, TLC

(***************************************************************************)
(* Bounds of the model                                                     *)
(***************************************************************************)
NBatch   == 2      \* rows of a batch
NActions == 2      \* n_actions
NQuant   == 2      \* N, number of quantiles
MaxVal   == 2      \* tensor entries (network outputs, rewards, features) range over 0..MaxVal
MaxHot   == 2      \* the tensors fed to one graph hold at most MaxHot non-zero entries
GammaDen == 2      \* gamma ranges over 0/GammaDen .. GammaDen/GammaDen

Batch  == 0 .. (NBatch - 1)
Acts   == 0 .. (NActions - 1)
Quants == 0 .. (NQuant - 1)

(***************************************************************************)
(* Exact arithmetic on rationals <<n, d>>, d > 0                           *)
(***************************************************************************)
RECURSIVE GCD(_, _)
GCD(a, b) == IF b = 0 THEN a ELSE GCD(b, a % b)
Abs(n) == IF n < 0 THEN 0 - n ELSE n
\* lowest terms
QNorm(a) == LET g == GCD(Abs(a[1]), a[2]) IN <<a[1] \div g, a[2] \div g>>

QInt(n)    == <<n, 1>>
\* the sum over the least common denominator
QAdd(a, b) ==
  LET g == GCD(a[2], b[2])
  IN  QNorm(<<a[1] * (b[2] \div g) + b[1] * (a[2] \div g), (a[2] \div g) * b[2]>>)
QSub(a, b) == QAdd(a, <<0 - b[1], b[2]>>)
\* the product of the cross-reduced terms
QMul(a, b) ==
  LET g1 == GCD(Abs(a[1]), b[2])
      g2 == GCD(Abs(b[1]), a[2])
  IN  QNorm(<<(a[1] \div g1) * (b[1] \div g2), (a[2] \div g2) * (b[2] \div g1)>>)
QDivInt(a, n) == QMul(a, <<1, n>>)

RECURSIVE CmpPos(_, _, _, _)
\* sign of a/b - c/d for a, c >= 0 and b, d > 0, by continued fractions
CmpPos(a, b, c, d) ==
  IF a \div b < c \div d THEN 0 - 1
  ELSE IF a \div b > c \div d THEN 1
  ELSE IF a % b = 0 /\ c % d = 0 THEN 0
  ELSE IF a % b = 0 THEN 0 - 1
  ELSE IF c % d = 0 THEN 1
  ELSE CmpPos(d, c % d, b, a % b)

\* sign of a - b
QCmp(a, b) ==
  IF a[1] < 0 /\ b[1] >= 0 THEN 0 - 1
  ELSE IF a[1] >= 0 /\ b[1] < 0 THEN 1
  ELSE IF a[1] >= 0 THEN CmpPos(a[1], a[2], b[1], b[2])
  ELSE CmpPos(0 - b[1], b[2], 0 - a[1], a[2])
QEq(a, b)  == QCmp(a, b) = 0
QLt(a, b)  == QCmp(a, b) < 0
QLe(a, b)  == QCmp(a, b) <= 0
QAbs(a)    == IF a[1] < 0 THEN <<0 - a[1], a[2]>> ELSE a

RECURSIVE QSumTo(_, _)
\* sum of f[0] .. f[n-1], f a function to rationals
QSumTo(f, n) == IF n = 0 THEN QInt(0) ELSE QAdd(QSumTo(f, n - 1), f[n - 1])

RECURSIVE SumTo(_, _)
\* sum of f[0] .. f[n-1], f a function to integers
SumTo(f, n) == IF n = 0 THEN 0 ELSE SumTo(f, n - 1) + f[n - 1]

Len0(f) == Cardinality(DOMAIN f)

\* tf.reduce_sum / tf.reduce_mean of a vector of integers
ReduceSumInt(v)  == SumTo(v, Len0(v))
ReduceMeanInt(v) == QNorm(<<SumTo(v, Len0(v)), Len0(v)>>)
\* tf.reduce_sum / tf.reduce_mean of a vector of rationals
ReduceSum(v)  == QSumTo(v, Len0(v))
ReduceMean(v) == QDivInt(QSumTo(v, Len0(v)), Len0(v))

\* tf.argmax over a vector of rationals: the smallest index holding the maximum
ArgMax(v) == CHOOSE a \in DOMAIN v :
                /\ \A c \in DOMAIN v : QLe(v[c], v[a])
                /\ \A c \in DOMAIN v : c < a => QLt(v[c], v[a])

\* tf.one_hot(idx, depth)
OneHot(idx, depth) == [a \in 0 .. (depth - 1) |-> IF a = idx THEN 1 ELSE 0]

(***************************************************************************)
(* The tensors fed to a graph: all entries in 0..MaxVal, at most MaxHot of  *)
(* them non-zero.  A feed is a function on the positions of the fed        *)
(* tensors, a position being <<tensor, row, column>>.                      *)
(***************************************************************************)
RECURSIVE SubsetsUpTo(_, _)
\* the subsets of P with at most h elements
SubsetsUpTo(P, h) ==
  IF h = 0 THEN {{}}
  ELSE LET prev == SubsetsUpTo(P, h - 1)
       IN  prev \cup {s \cup {p} : s \in prev, p \in P}

\* the feed on the positions P that holds f on the hot positions S, 0 elsewhere
Feed(P, S, f) == [p \in P |-> IF p \in S THEN f[p] ELSE 0]

VARIABLES
  target_net,   \* QRDQN: output of the target network, [batch, n_actions, N]
  agent_net,    \* QRDQN: output of the agent network,  [batch, n_actions, N]
  rew_t_ph,     \* reward placeholder, [batch]
  done_ph,      \* done placeholder, [batch]
  gamma,        \* discount, a rational
  target_act,   \* greedy action picked inside _select_target, [batch]
  target_z,     \* result of _select_target, [batch, N]
  backup_z,     \* result of _compute_backup, [batch, N]
  qpc,          \* position in the QRDQN graph: "fed", "selected", "backed"
  estimate,     \* _compute_loss argument: agent quantile values, [batch, N]
  target,       \* _compute_loss argument: backup quantile values, [batch, N]
  k,            \* Huber loss order
  td_z,         \* pairwise differences, [batch, N, N]
  quant_weight, \* quantile penalty weights as they enter the product, [batch, N, N]
  quantile_loss,\* per-entry loss before reduction, [batch, N, N]
  loss,         \* scalar loss
  lpc,          \* position in _compute_loss: "fed", "done"
  agent_blr,    \* BDQN: agent-side posterior of every action, [w, Sigma]
  target_blr,   \* BDQN: target-side posterior of every action, [w, Sigma]
  act_t_ph,     \* action placeholder of the last train_blr run, [batch]
  b_phi,        \* features (_phi) of the last train_blr run, [batch]
  b_target,     \* targets (_target) of the last train_blr run, [batch]
  train_in,     \* rows handed to BLR.train by the last train_blr run, per side and action
  trained,      \* the posteriors ever handed to BLR.train, as <<side, action>>
  op,           \* the operation run last
  prev_op,      \* the operation run before it
  nops,         \* number of operations run
  a_mean,       \* BDQN_IDS: agent_net of the observation, [n_actions]
  a_var,        \* BDQN_IDS: BLR variance of the observation, [n_actions]
  ids_score,    \* BDQN_IDS: the IDS score tensor, [n_actions]
  ids_action,   \* BDQN_IDS: the action returned, if any
  ids_pc        \* "fed", "returned" or "failed"

varsQR == <<target_net, agent_net, rew_t_ph, done_ph, gamma, target_act, target_z,
           backup_z, qpc>>

varsLoss == <<estimate, target, k, td_z, quant_weight, quantile_loss, loss, lpc>>

varsB == <<agent_blr, target_blr, act_t_ph, b_phi, b_target, train_in, trained, op,
          prev_op, nops>>

varsIDS == <<a_mean, a_var, ids_score, ids_action, ids_pc>>

(***************************************************************************)
(* State of the further graphs and objects                                 *)
(***************************************************************************)
\* BDQN_UCB._act_train on one batch
VARIABLES
  u_mean,   \* agent_net, [batch, n_actions]
  u_var,    \* self.a_var, [batch, n_actions]
  u_n_stds, \* self.n_stds
  u_action, \* the action tensor returned, [batch]
  u_pc      \* position: fed or returned

varsUCB == <<u_mean, u_var, u_n_stds, u_action, u_pc>>

IdleUCB ==
  /\ u_mean = <<>>
  /\ u_var = <<>>
  /\ u_n_stds = 0
  /\ u_action = <<>>
  /\ u_pc = "idle"

\* QRDQN._compute_estimate on one batch
VARIABLES
  e_agent_net, \* agent_net argument, [batch, n_actions, N]
  e_act_t_ph,  \* self.act_t_ph, the actions taken, [batch]
  e_z,         \* the tensor returned, [batch, N]
  e_pc         \* position: fed or returned

varsEst == <<e_agent_net, e_act_t_ph, e_z, e_pc>>

IdleEst ==
  /\ e_agent_net = <<>>
  /\ e_act_t_ph = <<>>
  /\ e_z = <<>>
  /\ e_pc = "idle"

\* QRDQN.__init__ and BDQN.__init__
VARIABLES
  c_class, \* the class constructed
  c_args,  \* the keyword arguments of the call
  c_self,  \* the attributes of the object under construction
  c_pc     \* position: called, returned or raised

varsCtor == <<c_class, c_args, c_self, c_pc>>

IdleCtor ==
  /\ c_class = "none"
  /\ c_args = <<>>
  /\ c_self = <<>>
  /\ c_pc = "idle"

\* QRDQN._compute_z_variance on one batch
VARIABLES
  zv_z,         \* z argument, [batch, n_actions, N]
  zv_normalize, \* normalize argument
  zv_out,       \* the tensor returned, [batch, n_actions]
  zv_pc         \* position: fed or returned

varsZVar == <<zv_z, zv_normalize, zv_out, zv_pc>>

IdleZVar ==
  /\ zv_z = <<>>
  /\ zv_normalize = FALSE
  /\ zv_out = <<>>
  /\ zv_pc = "idle"

\* tf.gradients of the QRDQN loss with respect to the estimate
VARIABLES
  g_z,      \* estimate argument of _compute_loss, [batch, N]
  g_target, \* target argument of _compute_loss, [batch, N]
  g_k,      \* self.k
  g_pert,   \* perturbation of the tangent of indicator_fn
  g_grad,   \* d loss / d estimate, [batch, N]
  g_pc      \* position: fed or done

varsGrad == <<g_z, g_target, g_k, g_pert, g_grad, g_pc>>

IdleGrad ==
  /\ g_z = <<>>
  /\ g_target = <<>>
  /\ g_k = 0
  /\ g_pert = 0
  /\ g_grad = <<>>
  /\ g_pc = "idle"

\* BDQN._conv_nn calls on one model
VARIABLES
  cv_phi,   \* self._phi: None or <<the features remembered>>
  cv_a_var, \* self.a_var: None or the variances remembered, [n_actions]
  cv_out,   \* the tensor returned by the last call, [n_actions]
  cv_calls  \* the calls made so far: scope, features and posteriors applied

varsConv == <<cv_phi, cv_a_var, cv_out, cv_calls>>

IdleConv ==
  /\ cv_phi = <<>>
  /\ cv_a_var = <<>>
  /\ cv_out = <<>>
  /\ cv_calls = <<>>

\* VideoPlotter: frame arrangement
VARIABLES
  width,     \* self.width
  height,    \* self.height
  obs_top,   \* self.obs_top
  obs_left,  \* self.obs_left
  obs_align, \* self.obs_align
  vp_space,  \* env.observation_space: <<>> when not a 3-dimensional Box, else <<height, width>>
  vp_spec,   \* layout obs_align: [vertical, horizontal]
  vp_frame,  \* shape <<height, width>> of the frame rendered first
  vp_pc      \* position: activating, configured, fixed or raised

varsVP == <<width, height, obs_top, obs_left, obs_align, vp_space, vp_spec, vp_frame, vp_pc>>

IdleVP ==
  /\ width = <<>>
  /\ height = <<>>
  /\ obs_top = <<>>
  /\ obs_left = <<>>
  /\ obs_align = FALSE
  /\ vp_space = <<>>
  /\ vp_spec = <<>>
  /\ vp_frame = <<>>
  /\ vp_pc = "idle"

\* VideoPlotter: activation and episodes
VARIABLES
  allowed,      \* self.allowed
  enabled,      \* self.enabled
  changed,      \* self.changed
  image,        \* self.image: None or the composite image
  plot_conf,    \* self.plot_conf: None or the TensorPlotConf of the class
  plot_data_id, \* self.plot_data_id
  hooks,        \* get_plot_data / activate_plots / deactivate_plots: None, train or eval
  figs,         \* self.conf and self.figs: None, or the image of every figure
  lp_mode,      \* self.mode
  lp_data,      \* id of the plot data the TensorPlotConf holds now
  lp_active,    \* the plottable tensors are set to run
  lp_last,      \* the last call: name, outcome and warning logged
  lp_n          \* number of calls made

varsLife == <<allowed, enabled, changed, image, plot_conf, plot_data_id, hooks, figs, lp_mode, lp_data, lp_active, lp_last, lp_n>>

IdleLife ==
  /\ allowed = FALSE
  /\ enabled = FALSE
  /\ changed = TRUE
  /\ image = <<>>
  /\ plot_conf = <<>>
  /\ plot_data_id = <<>>
  /\ hooks = <<>>
  /\ figs = <<>>
  /\ lp_mode = "none"
  /\ lp_data = 0
  /\ lp_active = FALSE
  /\ lp_last = <<>>
  /\ lp_n = 0

varsExt == <<varsUCB, varsEst, varsCtor, varsZVar, varsGrad, varsConv, varsVP, varsLife>>

IdleExt ==
  /\ IdleUCB
  /\ IdleEst
  /\ IdleCtor
  /\ IdleZVar
  /\ IdleGrad
  /\ IdleConv
  /\ IdleVP
  /\ IdleLife

\* everything but the state of UCB
OthersUCB == <<varsQR, varsLoss, varsB, varsIDS, varsEst, varsCtor, varsZVar, varsGrad, varsConv, varsVP, varsLife>>
IdleExtButUCB ==
  /\ IdleEst
  /\ IdleCtor
  /\ IdleZVar
  /\ IdleGrad
  /\ IdleConv
  /\ IdleVP
  /\ IdleLife

\* everything but the state of Est
OthersEst == <<varsQR, varsLoss, varsB, varsIDS, varsUCB, varsCtor, varsZVar, varsGrad, varsConv, varsVP, varsLife>>
IdleExtButEst ==
  /\ IdleUCB
  /\ IdleCtor
  /\ IdleZVar
  /\ IdleGrad
  /\ IdleConv
  /\ IdleVP
  /\ IdleLife

\* everything but the state of Ctor
OthersCtor == <<varsQR, varsLoss, varsB, varsIDS, varsUCB, varsEst, varsZVar, varsGrad, varsConv, varsVP, varsLife>>
IdleExtButCtor ==
  /\ IdleUCB
  /\ IdleEst
  /\ IdleZVar
  /\ IdleGrad
  /\ IdleConv
  /\ IdleVP
  /\ IdleLife

\* everything but the state of ZVar
OthersZVar == <<varsQR, varsLoss, varsB, varsIDS, varsUCB, varsEst, varsCtor, varsGrad, varsConv, varsVP, varsLife>>
IdleExtButZVar ==
  /\ IdleUCB
  /\ IdleEst
  /\ IdleCtor
  /\ IdleGrad
  /\ IdleConv
  /\ IdleVP
  /\ IdleLife

\* everything but the state of Grad
OthersGrad == <<varsQR, varsLoss, varsB, varsIDS, varsUCB, varsEst, varsCtor, varsZVar, varsConv, varsVP, varsLife>>
IdleExtButGrad ==
  /\ IdleUCB
  /\ IdleEst
  /\ IdleCtor
  /\ IdleZVar
  /\ IdleConv
  /\ IdleVP
  /\ IdleLife

\* everything but the state of Conv
OthersConv == <<varsQR, varsLoss, varsB, varsIDS, varsUCB, varsEst, varsCtor, varsZVar, varsGrad, varsVP, varsLife>>
IdleExtButConv ==
  /\ IdleUCB
  /\ IdleEst
  /\ IdleCtor
  /\ IdleZVar
  /\ IdleGrad
  /\ IdleVP
  /\ IdleLife

\* everything but the state of VP
OthersVP == <<varsQR, varsLoss, varsB, varsIDS, varsUCB, varsEst, varsCtor, varsZVar, varsGrad, varsConv, varsLife>>
IdleExtButVP ==
  /\ IdleUCB
  /\ IdleEst
  /\ IdleCtor
  /\ IdleZVar
  /\ IdleGrad
  /\ IdleConv
  /\ IdleLife

\* everything but the state of Life
OthersLife == <<varsQR, varsLoss, varsB, varsIDS, varsUCB, varsEst, varsCtor, varsZVar, varsGrad, varsConv>>
IdleExtButLife ==
  /\ IdleUCB
  /\ IdleEst
  /\ IdleCtor
  /\ IdleZVar
  /\ IdleGrad
  /\ IdleConv

vars == <<varsQR, varsLoss, varsB, varsIDS, varsExt>>
\* end of the state declarations

(***************************************************************************)
(* QRDQN._select_target                                                    *)
(***************************************************************************)
\* target_q = tf.reduce_mean(target_z, axis=-1)
TargetQ(net) == [b \in Batch |-> [a \in Acts |-> ReduceMeanInt(net[b][a])]]

\* target_act = tf.argmax(target_q, axis=-1)
TargetActMin(net) == [b \in Batch |->
   CHOOSE a \in Acts : \A c \in Acts : QLe(TargetQ(net)[b][a], TargetQ(net)[b][c])]
TargetAct(net) == [b \in Batch |-> ArgMax(TargetQ(net)[b])]

\* target_mask = tf.one_hot(target_act, n_actions), expanded on the last axis
TargetMask(net) == [b \in Batch |-> OneHot(TargetAct(net)[b], NActions)]

\* target_z = tf.reduce_sum(target_z * target_mask, axis=1)
SelectTarget(net) == [b \in Batch |-> [i \in Quants |->
   ReduceSumInt([a \in Acts |-> net[b][a][i] * TargetMask(net)[b][a]])]]

(***************************************************************************)
(* QRDQN._compute_backup                                                   *)
(***************************************************************************)
\* done_mask = tf.cast(tf.logical_not(done_ph), tf.float32)
DoneMaskNoNot(done) == [b \in DOMAIN done |-> IF done[b] THEN 1 ELSE 0]
DoneMask(done) == [b \in DOMAIN done |-> IF ~done[b] THEN 1 ELSE 0]

\* target_z = rew_t + gamma * done_mask * target_z, broadcast over the N slots
ComputeBackupOtherSlot(tz, rew, done, g) == [b \in Batch |-> [i \in Quants |->
   QAdd(QInt(rew[b]), QMul(QMul(g, QInt(DoneMask(done)[b])), QInt(tz[b][NQuant - 1 - i])))]]
ComputeBackup(tz, rew, done, g) == [b \in Batch |-> [i \in Quants |->
   QAdd(QInt(rew[b]), QMul(QMul(g, QInt(DoneMask(done)[b])), QInt(tz[b][i])))]]

(***************************************************************************)
(* The QRDQN graph on one batch                                            *)
(***************************************************************************)
NetPositions == {<<"net", b, a * NQuant + i>> : b \in Batch, a \in Acts, i \in Quants}

\* the network output of shape [batch, n_actions, N] held by a feed
NetTensor(f) == [b \in Batch |-> [a \in Acts |-> [i \in Quants |->
   f[<<"net", b, a * NQuant + i>>]]]]

\* the same network output with the action axis reversed
SwapActions(net) == [b \in Batch |-> [a \in Acts |-> net[b][NActions - 1 - a]]]

NoTensor == <<>>

IdleLoss ==
  /\ estimate = NoTensor
  /\ target = NoTensor
  /\ k = 0
  /\ td_z = NoTensor
  /\ quant_weight = NoTensor
  /\ quantile_loss = NoTensor
  /\ loss = NoTensor
  /\ lpc = "idle"

IdleB ==
  /\ agent_blr = NoTensor
  /\ target_blr = NoTensor
  /\ act_t_ph = NoTensor
  /\ b_phi = NoTensor
  /\ b_target = NoTensor
  /\ train_in = NoTensor
  /\ trained = {}
  /\ op = "idle"
  /\ prev_op = "idle"
  /\ nops = 0

IdleIDS ==
  /\ a_mean = NoTensor
  /\ a_var = NoTensor
  /\ ids_score = NoTensor
  /\ ids_action = 0 - 1
  /\ ids_pc = "idle"

NoBackup ==
  /\ rew_t_ph = NoTensor
  /\ done_ph = NoTensor
  /\ gamma = <<0, 1>>
  /\ backup_z = NoTensor

InitQR ==
  /\ IdleLoss
  /\ IdleB
  /\ IdleIDS
  /\ IdleExt
  /\ NoBackup
  /\ \E S \in SubsetsUpTo(NetPositions, MaxHot) : \E f \in [S -> 1 .. MaxVal] :
       target_net = NetTensor(Feed(NetPositions, S, f))
  /\ agent_net \in {target_net, SwapActions(target_net)}
  /\ target_act = NoTensor
  /\ target_z = NoTensor
  /\ qpc = "fed"

QRSelectTarget ==
  /\ qpc = "fed"
  /\ target_act' = TargetAct(target_net)
  /\ target_z' = SelectTarget(target_net)
  /\ qpc' = "selected"
  /\ UNCHANGED <<target_net, agent_net, rew_t_ph, done_ph, gamma, backup_z>>
  /\ UNCHANGED <<varsLoss, varsB, varsIDS, varsExt>>

NextQR == QRSelectTarget

SpecQR == InitQR /\ [][NextQR]_vars

(***************************************************************************)
(* The backup graph: the selected target distribution, the rewards and the *)
(* done flags of one batch are fed                                         *)
(***************************************************************************)
BackupPositions == {<<"target", b, i>> : b \in Batch, i \in Quants}
                     \cup {<<"rew", b, 0>> : b \in Batch}

InitBackup ==
  /\ IdleLoss
  /\ IdleB
  /\ IdleIDS
  /\ IdleExt
  /\ target_net = NoTensor
  /\ agent_net = NoTensor
  /\ target_act = NoTensor
  /\ \E S \in SubsetsUpTo(BackupPositions, MaxHot) : \E f \in [S -> 1 .. MaxVal] :
       LET feed == Feed(BackupPositions, S, f)
       IN  /\ target_z = [b \in Batch |-> [i \in Quants |-> feed[<<"target", b, i>>]]]
           /\ rew_t_ph = [b \in Batch |-> feed[<<"rew", b, 0>>]]
  /\ done_ph \in [Batch -> BOOLEAN]
  /\ gamma \in {<<g, GammaDen>> : g \in 0 .. GammaDen}
  /\ backup_z = NoTensor
  /\ qpc = "selected"

QRComputeBackup ==
  /\ qpc = "selected"
  /\ backup_z' = ComputeBackup(target_z, rew_t_ph, done_ph, gamma)
  /\ qpc' = "backed"
  /\ UNCHANGED <<target_net, agent_net, rew_t_ph, done_ph, gamma, target_act, target_z>>
  /\ UNCHANGED <<varsLoss, varsB, varsIDS, varsExt>>

NextBackup == QRComputeBackup

SpecBackup == InitBackup /\ [][NextBackup]_vars

(***************************************************************************)
(* Properties of the QRDQN target                                          *)
(***************************************************************************)
\* N times the mean of the N quantile values of action a in row b
QuantTotal(net, b, a) == SumTo(net[b][a], NQuant)

\* C1: for every transition with done = true and every quantile slot, the
\* backup equals the reward exactly, whatever gamma and the target values are.
C1_DoneBackupIsReward ==
  qpc = "backed" =>
    \A b \in Batch : done_ph[b] =>
      \A i \in Quants : backup_z[b][i][1] = rew_t_ph[b] * backup_z[b][i][2]

\* a done transition with a non-zero discount and a non-zero target value
C1_Witness ==
  /\ qpc = "backed"
  /\ gamma[1] > 0
  /\ \E b \in Batch :
       /\ done_ph[b]
       /\ \E i \in Quants : target_z[b][i] > 0 /\ target_z[b][i] # rew_t_ph[b]

\* C2: in every row the selected action maximizes the mean of the target
\* network's N quantile values and the returned distribution is the target
\* network's N values of that action, whatever the agent network outputs.
C2_SelectIsTargetArgmax ==
  qpc # "fed" =>
    \A b \in Batch :
      /\ target_act[b] \in Acts
      /\ \A c \in Acts :
           QuantTotal(target_net, b, c) <= QuantTotal(target_net, b, target_act[b])
      /\ \A i \in Quants : target_z[b][i] = target_net[b][target_act[b]][i]

\* the agent network strictly prefers another action than the one selected
C2_Witness ==
  /\ qpc = "selected"
  /\ \E b \in Batch : \E c \in Acts :
       /\ c # target_act[b]
       /\ \A a \in Acts \ {c} : QuantTotal(agent_net, b, a) < QuantTotal(agent_net, b, c)
       /\ QuantTotal(target_net, b, c) < QuantTotal(target_net, b, target_act[b])
       /\ \E i \in Quants : target_net[b][c][i] # target_z[b][i]


(***************************************************************************)
(* QRDQN._compute_loss                                                     *)
(***************************************************************************)
MaxK == 1      \* the Huber order ranges over 0..MaxK

\* mid_quantiles = (np.arange(0, N) + 0.5) / N
MidQuantiles == [q \in Quants |-> <<2 * q + 1, 2 * NQuant>>]

\* mid_quantiles[None, None, :] broadcast against a [batch, N, N] tensor:
\* entry (i, j) meets the midpoint of the last axis
BroadcastMid(i, j) == MidQuantiles[j]

\* td_z = tf.expand_dims(target_z, axis=-2) - tf.expand_dims(z, axis=-1)
TdZ(z, tz) == [b \in Batch |-> [i \in Quants |-> [j \in Quants |-> tz[b][j] - z[b][i]]]]

\* indicator_fn = tf.to_float(td_z < 0.0)
IndicatorFn(td) == [b \in Batch |-> [i \in Quants |-> [j \in Quants |->
   IF td[b][i][j] < 0 THEN 1 ELSE 0]]]

\* quant_weight = tf.stop_gradient(mid_quantiles - indicator_fn)
QuantWeight(td) == [b \in Batch |-> [i \in Quants |-> [j \in Quants |->
   QSub(BroadcastMid(i, j), QInt(IndicatorFn(td)[b][i][j]))]]]

\* tf_ops.huber_loss(x, delta)
HuberLoss(x, delta) ==
  IF QLt(QAbs(QInt(x)), QInt(delta))
    THEN QMul(<<1, 2>>, QInt(x * x))
    ELSE QMul(QInt(delta), QSub(QAbs(QInt(x)), QMul(<<1, 2>>, QInt(delta))))

\* the weight that multiplies the entry: tf.abs is applied only when k # 0
EntryWeightAbs(w, order) == QAbs(w)
EntryWeight(w, order) == IF order = 0 THEN w ELSE QAbs(w)

\* quantile_loss = quant_weight * td_z          if k == 0
\*               = quant_weight * huber_loss    otherwise
EntryLoss(w, d, order) ==
  IF order = 0 THEN QMul(w, QInt(d)) ELSE QMul(w, HuberLoss(d, order))

\* reduce_mean over the last axis, reduce_sum over the next, reduce_mean over batch
ReduceLossMeanMean(ql) == ReduceMean([b \in Batch |->
   ReduceMean([i \in Quants |-> ReduceMean(ql[b][i])])])
ReduceLoss(ql) == ReduceMean([b \in Batch |->
   ReduceSum([i \in Quants |-> ReduceMean(ql[b][i])])])

LossPositions == {<<"estimate", b, i>> : b \in Batch, i \in Quants}
                   \cup {<<"target", b, i>> : b \in Batch, i \in Quants}

IdleQR ==
  /\ target_net = NoTensor
  /\ agent_net = NoTensor
  /\ rew_t_ph = NoTensor
  /\ done_ph = NoTensor
  /\ gamma = <<0, 1>>
  /\ target_act = NoTensor
  /\ target_z = NoTensor
  /\ backup_z = NoTensor
  /\ qpc = "idle"

InitLoss ==
  /\ IdleQR
  /\ IdleB
  /\ IdleIDS
  /\ IdleExt
  /\ \E S \in SubsetsUpTo(LossPositions, MaxHot) : \E f \in [S -> 1 .. MaxVal] :
       LET feed == Feed(LossPositions, S, f)
       IN  /\ estimate = [b \in Batch |-> [i \in Quants |-> feed[<<"estimate", b, i>>]]]
           /\ target = [b \in Batch |-> [i \in Quants |-> feed[<<"target", b, i>>]]]
  /\ k \in 0 .. MaxK
  /\ td_z = NoTensor
  /\ quant_weight = NoTensor
  /\ quantile_loss = NoTensor
  /\ loss = NoTensor
  /\ lpc = "fed"

ComputeLoss ==
  /\ lpc = "fed"
  /\ td_z' = TdZ(estimate, target)
  /\ quant_weight' = [b \in Batch |-> [i \in Quants |-> [j \in Quants |->
        EntryWeight(QuantWeight(td_z')[b][i][j], k)]]]
  /\ quantile_loss' = [b \in Batch |-> [i \in Quants |-> [j \in Quants |->
        EntryLoss(quant_weight'[b][i][j], td_z'[b][i][j], k)]]]
  /\ loss' = ReduceLoss(quantile_loss')
  /\ lpc' = "done"
  /\ UNCHANGED <<estimate, target, k>>
  /\ UNCHANGED <<varsQR, varsB, varsIDS, varsExt>>

NextLoss == ComputeLoss

SpecLoss == InitLoss /\ [][NextLoss]_vars

(***************************************************************************)
(* Properties of the quantile regression loss                              *)
(***************************************************************************)
\* delta[i,j] = target_z[j] - estimate_z[i] of row b, from the fed tensors
Delta(b, i, j) == target[b][j] - estimate[b][i]

\* tau_q = (q + 0.5) / N
Tau(q) == <<2 * q + 1, 2 * NQuant>>

\* |tau_q - 1[d < 0]|
AsymWeight(q, d) == IF d < 0 THEN QSub(QInt(1), Tau(q)) ELSE Tau(q)

\* C3: the asymmetric weight of entry (i, j) is |tau_i - 1[delta[i,j] < 0]|,
\* tau_i being the midpoint of the predicted quantile i (the row index), not
\* the midpoint of the target index j.
C3_WeightUsesPredictedQuantile ==
  lpc = "done" =>
    \A b \in Batch : \A i \in Quants : \A j \in Quants :
      QEq(QAbs(quant_weight[b][i][j]), AsymWeight(i, Delta(b, i, j)))

\* C4: every entry of the pairwise matrix contributes the signed pinball term
\* (tau - 1[delta<0]) * delta when k = 0 and |tau - 1[delta<0]| * huber(delta, k)
\* when k > 0, tau being the midpoint the graph pairs with the entry.
C4_PinballOrHuber ==
  lpc = "done" =>
    \A b \in Batch : \A i \in Quants : \A j \in Quants :
      LET d  == Delta(b, i, j)
          t  == BroadcastMid(i, j)
          hu == IF d < k /\ 0 - d < k THEN <<d * d, 2>> ELSE <<k * (2 * (IF d < 0 THEN 0 - d ELSE d) - k), 2>>
      IN  IF k = 0
            THEN QEq(quantile_loss[b][i][j],
                     IF d < 0 THEN <<(t[1] - t[2]) * d, t[2]>> ELSE <<t[1] * d, t[2]>>)
            ELSE QEq(quantile_loss[b][i][j],
                     IF d < 0 THEN <<(t[2] - t[1]) * hu[1], t[2] * hu[2]>>
                              ELSE <<t[1] * hu[1], t[2] * hu[2]>>)

\* k = 0 with a negative difference in one entry and a positive one in another
C4_Witness ==
  /\ lpc = "done"
  /\ k = 0
  /\ \E b \in Batch : \E i \in Quants : \E j \in Quants :
       Delta(b, i, j) < 0 /\ quantile_loss[b][i][j][1] > 0
  /\ \E b \in Batch : \E i \in Quants : \E j \in Quants :
       Delta(b, i, j) > 0 /\ quantile_loss[b][i][j][1] > 0

\* entry e = (b, i, j) of ql in row-major order
EntryAt(ql, e) ==
  ql[e \div (NQuant * NQuant)][(e % (NQuant * NQuant)) \div NQuant][e % NQuant]

\* the entries of ql in units of 1 / (4 * N), which every contribution is a
\* multiple of: the weights are multiples of 1 / (2 * N), the Huber terms of 1 / 2
EntryUnits(ql) == [e \in 0 .. (NBatch * NQuant * NQuant - 1) |->
   EntryAt(ql, e)[1] * ((4 * NQuant) \div EntryAt(ql, e)[2])]

\* C5: loss = (1/B) * sum_b sum_i (1/N) * sum_j contribution[b,i,j]
C5_ReductionOrder ==
  lpc = "done" =>
    /\ \A e \in DOMAIN EntryUnits(quantile_loss) :
         (4 * NQuant) % EntryAt(quantile_loss, e)[2] = 0
    /\ QEq(loss, <<ReduceSumInt(EntryUnits(quantile_loss)), 4 * NQuant * NBatch * NQuant>>)

\* rows with different non-zero totals
C5_Witness ==
  /\ lpc = "done"
  /\ loss[1] > 0
  /\ \E b \in Batch : \E c \in Batch :
       /\ ReduceSumInt(EntryUnits([x \in Batch |-> quantile_loss[b]])) > 0
       /\ ReduceSumInt(EntryUnits([x \in Batch |-> quantile_loss[c]])) > 0
       /\ ReduceSumInt(EntryUnits([x \in Batch |-> quantile_loss[b]]))
            # ReduceSumInt(EntryUnits([x \in Batch |-> quantile_loss[c]]))

(***************************************************************************)
(* Bayesian linear regression posterior (rltf.tf_utils.BLR), feature       *)
(* dimension 1: w and Sigma are rationals                                  *)
(***************************************************************************)
tau      == 1      \* prior weight precision
sigma_e  == 1      \* observation noise standard deviation
MaxNoise == 1      \* a posterior sample lies within MaxNoise of the mean
MaxOps   == 3      \* graph runs on one model
MaxLifeVal == 1    \* features and targets fed during the life of a model range over 0..MaxLifeVal

\* the prior: w = 0, Sigma = 1/tau
Prior == [w |-> QInt(0), Sigma |-> QNorm(<<1, tau>>)]

\* BLR.reset_op
BLRReset(post) == Prior

\* BLR.train(X, y): conjugate update of (w, Sigma) on the rows (X[b], y[b])
BLRTrain(post, rows) ==
  LET sxx   == SumTo([b \in Batch |-> rows[b].X * rows[b].X], NBatch)
      sxy   == SumTo([b \in Batch |-> rows[b].X * rows[b].y], NBatch)
      noise == sigma_e * sigma_e
      lam   == <<post.Sigma[2], post.Sigma[1]>>
      lam2  == QAdd(lam, <<sxx, noise>>)
      eta2  == QAdd(QMul(lam, post.w), <<sxy, noise>>)
  IN  [w     |-> QMul(eta2, <<lam2[2], lam2[1]>>),
       Sigma |-> QNorm(<<lam2[2], lam2[1]>>)]

\* BLR.resample_w(): a draw from N(w, Sigma), e its offset from the mean
BLRResample(post, e) == QAdd(post.w, QInt(e))

\* tf_utils.assign_vars(dest_vars, source_vars): every destination takes the
\* value of its source
AssignVars(dest, source) == source

(***************************************************************************)
(* BDQN._build_train_blr_op                                                *)
(***************************************************************************)
\* mask = tf.cast(tf.equal(act_t_ph, a), tf.float32)
TrainMaskNotEqual(act, a) == [b \in Batch |-> IF act[b] # a THEN 1 ELSE 0]
TrainMask(act, a) == [b \in Batch |-> IF act[b] = a THEN 1 ELSE 0]

\* X = phi * mask ; y = target * mask
TrainRows(phi, tgt, act, a) == [b \in Batch |->
   [mask |-> TrainMask(act, a)[b],
    X    |-> phi[b] * TrainMask(act, a)[b],
    y    |-> tgt[b] * TrainMask(act, a)[b]]]

\* w_updates = [train_blr(blr, i) for i, blr in enumerate(self.agent_blr)]
TrainedBlrsBoth == {"agent", "target"}
TrainedBlrs == {"agent"}

(***************************************************************************)
(* BDQN.build: reset_blr groups the reset ops of these posteriors          *)
(***************************************************************************)
ResetGroupTail == Acts \ {0}
ResetGroup == Acts

(***************************************************************************)
(* sess.run(train_blr) on the batch (act, phi, tgt): every posterior of    *)
(* TrainedBlrs is trained on the rows masked to its action                 *)
(***************************************************************************)
TrainBlrOn(act, phi, tgt) ==
  /\ agent_blr' = IF "agent" \in TrainedBlrs
                     THEN [a \in Acts |-> BLRTrain(agent_blr[a], TrainRows(phi, tgt, act, a))]
                     ELSE agent_blr
  /\ target_blr' = IF "target" \in TrainedBlrs
                      THEN [a \in Acts |-> BLRTrain(target_blr[a], TrainRows(phi, tgt, act, a))]
                      ELSE target_blr
  /\ trained' = trained \cup (TrainedBlrs \X Acts)

(***************************************************************************)
(* The train_blr graph on one fed batch                                    *)
(***************************************************************************)
TrainPositions == {<<"phi", b, 0>> : b \in Batch} \cup {<<"target", b, 0>> : b \in Batch}

InitTrain ==
  /\ IdleQR
  /\ IdleLoss
  /\ IdleIDS
  /\ IdleExt
  /\ agent_blr = [a \in Acts |-> Prior]
  /\ target_blr = [a \in Acts |-> Prior]
  /\ act_t_ph \in [Batch -> Acts]
  /\ \E S \in SubsetsUpTo(TrainPositions, MaxHot) : \E f \in [S -> 1 .. MaxVal] :
       LET feed == Feed(TrainPositions, S, f)
       IN  /\ b_phi = [b \in Batch |-> feed[<<"phi", b, 0>>]]
           /\ b_target = [b \in Batch |-> feed[<<"target", b, 0>>]]
  /\ train_in = NoTensor
  /\ trained = {}
  /\ op = "fed"
  /\ prev_op = "fed"
  /\ nops = 0

RunTrainBlr ==
  /\ op = "fed"
  /\ op' = "train_blr"
  /\ TrainBlrOn(act_t_ph, b_phi, b_target)
  /\ train_in' = [side \in TrainedBlrs |->
                    [a \in Acts |-> TrainRows(b_phi, b_target, act_t_ph, a)]]
  /\ UNCHANGED <<act_t_ph, b_phi, b_target, prev_op, nops>>
  /\ UNCHANGED <<varsQR, varsLoss, varsIDS, varsExt>>

NextTrain == RunTrainBlr

SpecTrain == InitTrain /\ [][NextTrain]_vars

(***************************************************************************)
(* Operations on a built BDQN_TS model                                     *)
(***************************************************************************)
Ran(o) ==
  /\ nops < MaxOps
  /\ nops' = nops + 1
  /\ prev_op' = op
  /\ op' = o

\* the batches fed during the life of a model: one transition (a, x, y) in
\* the first row, the other rows holding zero features and targets
LifeBatch(a, x, y) ==
  [act |-> [b \in Batch |-> a],
   phi |-> [b \in Batch |-> IF b = 0 THEN x ELSE 0],
   tgt |-> [b \in Batch |-> IF b = 0 THEN y ELSE 0]]

\* the offsets of the samples drawn by one reset_ts: at most one posterior
\* draws a sample away from its mean
SampleOffsets ==
  {[a \in Acts |-> 0]} \cup
  {[a \in Acts |-> IF a = a0 THEN e0 ELSE 0] :
      a0 \in Acts, e0 \in ((0 - MaxNoise) .. MaxNoise) \ {0}}

\* the state after BDQN_TS.build: train_blr, reset_blr and reset_ts exist and
\* every posterior is at the prior
Init ==
  /\ IdleQR
  /\ IdleLoss
  /\ IdleIDS
  /\ IdleExt
  /\ agent_blr = [a \in Acts |-> Prior]
  /\ target_blr = [a \in Acts |-> Prior]
  /\ act_t_ph = NoTensor
  /\ b_phi = NoTensor
  /\ b_target = NoTensor
  /\ train_in = NoTensor
  /\ trained = {}
  /\ op = "build"
  /\ prev_op = "build"
  /\ nops = 0

\* sess.run(train_blr) on some batch
TrainBlr ==
  /\ Ran("train_blr")
  /\ \E a \in Acts : \E x \in 1 .. MaxLifeVal : \E y \in 0 .. MaxLifeVal :
       TrainBlrOn(LifeBatch(a, x, y).act, LifeBatch(a, x, y).phi, LifeBatch(a, x, y).tgt)
  /\ UNCHANGED <<act_t_ph, b_phi, b_target, train_in>>
  /\ UNCHANGED <<varsQR, varsLoss, varsIDS, varsExt>>

\* sess.run(reset_blr)
ResetBlr ==
  /\ Ran("reset_blr")
  /\ agent_blr' = [a \in Acts |-> IF a \in ResetGroup THEN BLRReset(agent_blr[a])
                                                       ELSE agent_blr[a]]
  /\ UNCHANGED <<target_blr, act_t_ph, b_phi, b_target, train_in, trained>>
  /\ UNCHANGED <<varsQR, varsLoss, varsIDS, varsExt>>

\* target synchronization: the target-side variables take the agent-side values
UpdateTarget ==
  /\ Ran("update_target")
  /\ target_blr' = AssignVars(target_blr, agent_blr)
  /\ UNCHANGED <<agent_blr, act_t_ph, b_phi, b_target, train_in, trained>>
  /\ UNCHANGED <<varsQR, varsLoss, varsIDS, varsExt>>

\* BDQN_TS.reset: sess.run(reset_ts), with
\*   agent_w  = [blr.w            for blr in self.agent_blr]
\*   target_w = [blr.resample_w() for blr in self.target_blr]
\*   reset_ts = tf_utils.assign_vars(agent_w, target_w)
ResetTS ==
  /\ Ran("reset_ts")
  /\ \E e \in SampleOffsets :
       LET agent_w  == [a \in Acts |-> agent_blr[a].w]
           target_w == [a \in Acts |-> BLRResample(target_blr[a], e[a])]
           new_w    == AssignVars(agent_w, target_w)
       IN  agent_blr' = [a \in Acts |-> [agent_blr[a] EXCEPT !.w = new_w[a]]]
  /\ UNCHANGED <<target_blr, act_t_ph, b_phi, b_target, train_in, trained>>
  /\ UNCHANGED <<varsQR, varsLoss, varsIDS, varsExt>>

Next == TrainBlr \/ ResetBlr \/ UpdateTarget \/ ResetTS

Spec == Init /\ [][Next]_vars

(***************************************************************************)
(* Properties of the BDQN posteriors                                       *)
(***************************************************************************)
\* C6: the row given to agent posterior a for batch row b is (phi[b], target[b])
\* when act_t[b] = a and the zero row otherwise, so that each transition is
\* real data for exactly one posterior, the one of the action taken.
C6_RowsMaskedByAction ==
  op = "train_blr" =>
    /\ \A a \in Acts : \A b \in Batch :
         /\ train_in["agent"][a][b].X = (IF act_t_ph[b] = a THEN b_phi[b] ELSE 0)
         /\ train_in["agent"][a][b].y = (IF act_t_ph[b] = a THEN b_target[b] ELSE 0)
    /\ \A b \in Batch :
         {a \in Acts : train_in["agent"][a][b].mask = 1} = {act_t_ph[b]}

\* rows of different actions, one carrying data that moved only its own posterior
C6_Witness ==
  /\ op = "train_blr"
  /\ \E b \in Batch : \E c \in Batch :
       /\ act_t_ph[b] # act_t_ph[c]
       /\ b_phi[b] > 0 /\ b_target[b] > 0
       /\ agent_blr[act_t_ph[b]].w[1] > 0
       /\ agent_blr[act_t_ph[c]] = Prior

\* C7: no target-side posterior is ever handed to the Bayesian train operation:
\* train_blr trains the agent-side posteriors, one per action, and a target-side
\* posterior changes only in a copy, resample or reset operation.
C7_TargetNeverTrained ==
  /\ [](/\ \A t \in trained : t[1] = "agent"
        /\ trained # {} => trained = {"agent"} \X Acts)
  /\ [][target_blr' # target_blr => op' \in {"update_target", "reset_ts", "reset_blr"}]_vars

\* a train ran, then the target was synchronized, then another train ran
C7_Witness ==
  /\ op = "train_blr"
  /\ prev_op = "update_target"
  /\ trained # {}
  /\ \E a \in Acts : target_blr[a] # Prior /\ target_blr[a] # agent_blr[a]

\* C8: the Thompson-Sampling reset leaves (w, Sigma) of every agent-side
\* posterior unchanged and writes the sample into the target-side weights.
C8_ResetTSKeepsAgent ==
  [][op' = "reset_ts" /\ nops' = nops + 1 => agent_blr' = agent_blr]_vars

\* C9: after reset_blr every per-action agent posterior equals the analytic
\* prior (w = 0, Sigma = prior covariance), whatever was run before, and a
\* second reset_blr in a row leaves (w, Sigma) as the first one did.
C9_ResetToPrior ==
  /\ [](op = "reset_blr" => \A a \in Acts : agent_blr[a] = Prior)
  /\ [][op = "reset_blr" /\ op' = "reset_blr" => agent_blr' = agent_blr]_vars

\* reset_blr ran twice in a row on posteriors that had been trained
C9_Witness ==
  /\ op = "reset_blr"
  /\ prev_op = "reset_blr"
  /\ trained # {}
  /\ \A a \in Acts : agent_blr[a].w = QInt(0) /\ agent_blr[a].Sigma = QNorm(<<1, tau>>)

(***************************************************************************)
(* float32 values that may be non-finite                                   *)
(***************************************************************************)
Fin(q) == [kind |-> "fin", q |-> q]
NaN    == [kind |-> "nan", q |-> <<0, 1>>]
PInf   == [kind |-> "pinf", q |-> <<0, 1>>]
NInf   == [kind |-> "ninf", q |-> <<0, 1>>]

IsFinite(x) == x.kind = "fin"
FSign(x) == IF x.kind = "pinf" THEN 1 ELSE IF x.kind = "ninf" THEN 0 - 1
            ELSE IF x.q[1] > 0 THEN 1 ELSE IF x.q[1] < 0 THEN 0 - 1 ELSE 0
FInfOf(sgn) == IF sgn > 0 THEN PInf ELSE NInf

FNeg(x) == IF x.kind = "fin" THEN Fin(<<0 - x.q[1], x.q[2]>>)
           ELSE IF x.kind = "pinf" THEN NInf
           ELSE IF x.kind = "ninf" THEN PInf ELSE NaN

FAdd(x, y) ==
  IF x.kind = "nan" \/ y.kind = "nan" THEN NaN
  ELSE IF IsFinite(x) /\ IsFinite(y) THEN Fin(QAdd(x.q, y.q))
  ELSE IF IsFinite(x) THEN y
  ELSE IF IsFinite(y) THEN x
  ELSE IF x.kind = y.kind THEN x ELSE NaN

FSub(x, y) == FAdd(x, FNeg(y))

FMul(x, y) ==
  IF x.kind = "nan" \/ y.kind = "nan" THEN NaN
  ELSE IF IsFinite(x) /\ IsFinite(y) THEN Fin(QMul(x.q, y.q))
  ELSE IF FSign(x) * FSign(y) = 0 THEN NaN
  ELSE FInfOf(FSign(x) * FSign(y))

\* tf.div
FDiv(x, y) ==
  IF x.kind = "nan" \/ y.kind = "nan" THEN NaN
  ELSE IF IsFinite(x) /\ IsFinite(y)
    THEN IF y.q[1] = 0
           THEN (IF x.q[1] = 0 THEN NaN ELSE FInfOf(FSign(x)))
           ELSE Fin(QMul(x.q, IF y.q[1] > 0 THEN <<y.q[2], y.q[1]>>
                                            ELSE <<0 - y.q[2], 0 - y.q[1]>>))
  ELSE IF IsFinite(x) THEN Fin(<<0, 1>>)
  ELSE IF IsFinite(y) THEN FInfOf(FSign(x) * (IF FSign(y) < 0 THEN 0 - 1 ELSE 1))
  ELSE NaN

\* tf.square
FSquare(x) == FMul(x, x)

\* tf.sqrt, on the integer squares the model feeds
FSqrt(x) ==
  IF x.kind = "nan" \/ x.kind = "ninf" THEN NaN
  ELSE IF x.kind = "pinf" THEN PInf
  ELSE IF x.q[1] < 0 THEN NaN
  ELSE Fin(QInt(CHOOSE r \in 0 .. x.q[1] : r * r * x.q[2] = x.q[1]))

\* ln of an integer, in units of 1e-5
LogE5(n) == CASE n = 1 -> 0
              [] n = 2 -> 69315
              [] n = 5 -> 160944
              [] n = 10 -> 230259
              [] n = 17 -> 283321
              [] n = 26 -> 325810

\* tf.log, on the integers the model feeds
FLog(x) ==
  IF x.kind = "nan" \/ x.kind = "ninf" THEN NaN
  ELSE IF x.kind = "pinf" THEN PInf
  ELSE IF x.q[1] < 0 THEN NaN
  ELSE IF x.q[1] = 0 THEN NInf
  ELSE Fin(QNorm(<<LogE5(x.q[1] \div x.q[2]), 100000>>))

\* tf.reduce_max: the largest entry; with a NaN entry the kernel may return
\* the NaN or the largest of the others
ReduceMaxOutcomes(v) ==
  LET nums == {a \in DOMAIN v : v[a].kind # "nan"}
      tops == {v[a] : a \in {c \in nums : \A d \in nums :
                 \/ v[c].kind = "pinf"
                 \/ v[d].kind = "ninf"
                 \/ IsFinite(v[c]) /\ IsFinite(v[d]) /\ QLe(v[d].q, v[c].q)}}
  IN  IF nums = DOMAIN v THEN tops ELSE tops \cup {NaN}

\* tf.argmin over finite values: the smallest index holding the minimum
ArgMinLargest(v) == CHOOSE a \in DOMAIN v : \A c \in DOMAIN v : QLe(v[c].q, v[a].q)
ArgMin(v) == CHOOSE a \in DOMAIN v :
                /\ \A c \in DOMAIN v : QLe(v[a].q, v[c].q)
                /\ \A c \in DOMAIN v : c < a => QLt(v[a].q, v[c].q)

(***************************************************************************)
(* BDQN_IDS._act_train on one observation                                  *)
(***************************************************************************)
n_stds  == 1       \* scale constant for computing uncertainty
rho     == 1       \* self.rho = 1.0
MaxMean == 2       \* means range over 0..MaxMean
MaxStd  == 2       \* finite variances are the squares of 0..MaxStd

\* the 1e-5 added to the logarithm
IdsEpsilon == <<1, 100000>>

\* std = tf.sqrt(var)
IdsStd(var) == [a \in Acts |-> FSqrt(var[a])]

\* mean + n_stds * std
IdsUpper(mean, var) == [a \in Acts |->
   FAdd(mean[a], FMul(Fin(QInt(n_stds)), IdsStd(var)[a]))]

\* regret = regret - (mean - n_stds * std), top being the reduce_max
IdsRegret(mean, var, top) == [a \in Acts |->
   FSub(top, FSub(mean[a], FMul(Fin(QInt(n_stds)), IdsStd(var)[a])))]

\* info_gain = tf.log(1 + var / rho**2) + 1e-5
IdsInfoGainNoEps(var) == [a \in Acts |->
   FLog(FAdd(Fin(QInt(1)), FDiv(var[a], Fin(QInt(rho * rho)))))]
IdsInfoGain(var) == [a \in Acts |->
   FAdd(FLog(FAdd(Fin(QInt(1)), FDiv(var[a], Fin(QInt(rho * rho))))), Fin(IdsEpsilon))]

\* ids_score = tf.div(tf.square(regret), info_gain)
IdsScore(mean, var, top) == [a \in Acts |->
   FDiv(FSquare(IdsRegret(mean, var, top)[a]), IdsInfoGain(var)[a])]

\* tf.check_numerics passes the tensor on only when every entry is finite
CheckNumerics(t) == \A a \in DOMAIN t : IsFinite(t[a])

IdsMeans == [Acts -> {Fin(QInt(m)) : m \in 0 .. MaxMean}]
IdsVars  == [Acts -> {Fin(QInt(sd * sd)) : sd \in 0 .. MaxStd} \cup {NaN}]

InitIDS ==
  /\ IdleQR
  /\ IdleLoss
  /\ IdleB
  /\ IdleExt
  /\ a_mean \in IdsMeans
  /\ a_var \in IdsVars
  /\ ids_score = NoTensor
  /\ ids_action = 0 - 1
  /\ ids_pc = "fed"

IdsActTrain ==
  /\ ids_pc = "fed"
  /\ \E top \in ReduceMaxOutcomes(IdsUpper(a_mean, a_var)) :
       /\ ids_score' = IdsScore(a_mean, a_var, top)
       /\ IF CheckNumerics(ids_score')
            THEN /\ ids_action' = ArgMin(ids_score')
                 /\ ids_pc' = "returned"
            ELSE /\ ids_action' = ids_action
                 /\ ids_pc' = "failed"
  /\ UNCHANGED <<a_mean, a_var>>
  /\ UNCHANGED <<varsQR, varsLoss, varsB, varsExt>>

NextIDS == IdsActTrain

SpecIDS == InitIDS /\ [][NextIDS]_vars

(***************************************************************************)
(* Properties of the IDS action selection                                  *)
(***************************************************************************)
HasZeroVar == \E a \in Acts : a_var[a] = Fin(QInt(0))

\* C10, as claimed: an input in which var = 0 for one action makes the action
\* selection fail instead of returning an action.
C10_ZeroVarFails ==
  (ids_pc # "fed" /\ HasZeroVar) => ids_pc = "failed"

\* C10, amended: a zero variance does not make the selection fail; the info
\* gain of that action is 1e-5, its score is finite, and an action is returned
\* unless some score is NaN or Inf; the selection fails exactly when one is.
C10_ZeroVarReturns ==
  ids_pc # "fed" =>
    /\ ids_pc = "failed" <=> (\E a \in Acts : ~IsFinite(ids_score[a]))
    /\ (HasZeroVar /\ \A a \in Acts : IsFinite(a_var[a])) =>
          ids_pc = "returned" /\ ids_action \in Acts

\* an action was returned on an input with a zero and a non-zero variance
C10_Witness ==
  /\ ids_pc = "returned"
  /\ HasZeroVar
  /\ \E a \in Acts : IsFinite(a_var[a]) /\ a_var[a].q[1] > 0
  /\ \E a \in Acts : a_var[a] = Fin(QInt(0)) /\ ids_score[a].q[1] > 0

(***************************************************************************)
(* C11: the action returned by BDQN_IDS._act_train                         *)
(***************************************************************************)
\* the integer standard deviation of a finite variance fed to the graph
StdOf(a) == CHOOSE r \in 0 .. a_var[a].q[1] : r * r = a_var[a].q[1]

\* max over a' of (mean_a' + n_stds * std_a')
TopUpper == CHOOSE u \in {a_mean[a].q[1] + n_stds * StdOf(a) : a \in Acts} :
              \A a \in Acts : a_mean[a].q[1] + n_stds * StdOf(a) <= u

\* regret_a = max_a' (mean_a' + n_stds * std_a') - (mean_a - n_stds * std_a)
RegretOf(a) == TopUpper - (a_mean[a].q[1] - n_stds * StdOf(a))

\* score_a = regret_a^2 / (ln(1 + var_a / rho^2) + 1e-5), the logarithm and the
\* epsilon both in units of 1e-5
ScoreOf(a) ==
  <<RegretOf(a) * RegretOf(a) * 100000,
    LogE5(1 + a_var[a].q[1] \div (rho * rho)) + 1>>

\* C11: when every score is finite the returned action minimizes
\* regret_a^2 / info_gain_a over all actions; when some score is NaN or Inf
\* the step fails and no action is returned.
C11_ArgminScoreOrFail ==
  /\ ids_pc = "returned" =>
       /\ \A a \in Acts : IsFinite(ids_score[a]) /\ IsFinite(a_var[a])
       /\ ids_action \in Acts
       /\ \A a \in Acts : QEq(ids_score[a].q, ScoreOf(a))
       /\ \A a \in Acts : QLe(ScoreOf(ids_action), ScoreOf(a))
  /\ ids_pc = "failed" =>
       /\ \E a \in Acts : ~IsFinite(ids_score[a])
       /\ ids_action = 0 - 1
  /\ (ids_pc # "fed" /\ \A a \in Acts : IsFinite(ids_score[a])) => ids_pc = "returned"

\* an action other than the first was returned, its score strictly below another
C11_Witness ==
  /\ ids_pc = "returned"
  /\ ids_action # 0
  /\ \E a \in Acts : QLt(ScoreOf(ids_action), ScoreOf(a))
  /\ \E a \in Acts : a_var[a].q[1] > 1

\* a NaN variance made the step fail
C11_WitnessFail ==
  /\ ids_pc = "failed"
  /\ \E a \in Acts : a_var[a] = NaN

(***************************************************************************)
(* BDQN_UCB._act_train on one batch                                        *)
(***************************************************************************)
MaxNStds == 2      \* n_stds ranges over 0..MaxNStds

\* std = tf.sqrt(self.a_var)
UcbStd(var) == [b \in Batch |-> [a \in Acts |-> FSqrt(var[b][a])]]

\* mean + self.n_stds * std
UcbUpperMeanOnly(mean, var, n) == [b \in Batch |-> [a \in Acts |-> mean[b][a]]]
UcbUpper(mean, var, n) == [b \in Batch |-> [a \in Acts |->
   FAdd(mean[b][a], FMul(Fin(QInt(n)), UcbStd(var)[b][a]))]]

\* action = tf.argmax(mean + self.n_stds * std, axis=-1)
UcbAction(mean, var, n) == [b \in Batch |->
   ArgMax([a \in Acts |-> UcbUpper(mean, var, n)[b][a].q])]

UcbPositions == {<<"mean", b, a>> : b \in Batch, a \in Acts}
                  \cup {<<"std", b, a>> : b \in Batch, a \in Acts}

\* the means and the standard deviations fed are finite; a_var holds the squares
InitUCB ==
  /\ IdleQR
  /\ IdleLoss
  /\ IdleB
  /\ IdleIDS
  /\ IdleExtButUCB
  /\ \E S \in SubsetsUpTo(UcbPositions, MaxHot) : \E f \in [S -> 1 .. MaxStd] :
       LET feed == Feed(UcbPositions, S, f)
       IN  /\ u_mean = [b \in Batch |-> [a \in Acts |-> Fin(QInt(feed[<<"mean", b, a>>]))]]
           /\ u_var = [b \in Batch |-> [a \in Acts |->
                          Fin(QInt(feed[<<"std", b, a>>] * feed[<<"std", b, a>>]))]]
  /\ u_n_stds \in 0 .. MaxNStds
  /\ u_action = <<>>
  /\ u_pc = "fed"

UcbActTrain ==
  /\ u_pc = "fed"
  /\ u_action' = UcbAction(u_mean, u_var, u_n_stds)
  /\ u_pc' = "returned"
  /\ UNCHANGED <<u_mean, u_var, u_n_stds>>
  /\ UNCHANGED OthersUCB

NextUCB == UcbActTrain

SpecUCB == InitUCB /\ [][NextUCB]_vars

\* the integer standard deviation behind a_var[b][a]
UcbStdOf(b, a) == CHOOSE r \in 0 .. u_var[b][a].q[1] : r * r = u_var[b][a].q[1]

\* mean_a + n_stds * sqrt(var_a) of row b
UcbBound(b, a) == u_mean[b][a].q[1] + u_n_stds * UcbStdOf(b, a)

\* C12: for every batch row the returned action maximizes
\* mean_a + n_stds * sqrt(var_a) over all actions, n_stds being the constant
\* of the model.
C12_UcbArgmax ==
  u_pc = "returned" =>
    \A b \in Batch :
      /\ u_action[b] \in Acts
      /\ \A a \in Acts : UcbBound(b, a) <= UcbBound(b, u_action[b])

\* a row whose returned action has a smaller mean than another action: only
\* n_stds * sqrt(var) ranks it first
C12_Witness ==
  /\ u_pc = "returned"
  /\ u_n_stds > 0
  /\ \E b \in Batch : \E a \in Acts :
       /\ QLt(u_mean[b][u_action[b]].q, u_mean[b][a].q)
       /\ UcbBound(b, a) < UcbBound(b, u_action[b])

(***************************************************************************)
(* C13: the backup of every slot                                           *)
(***************************************************************************)
\* C13: for every transition b and every slot i the backup is
\* reward[b] + gamma * (1 - done[b]) * target_z[b,i]: one reward, discount and
\* done mask for the N slots of a row, slot i built from slot i of the selected
\* target distribution only.
C13_BackupPerSlot ==
  qpc = "backed" =>
    \A b \in Batch : \A i \in Quants :
      backup_z[b][i][1] * gamma[2] =
        (rew_t_ph[b] * gamma[2] + gamma[1] * (IF done_ph[b] THEN 0 ELSE 1) * target_z[b][i])
          * backup_z[b][i][2]

\* a row that is not done, discounted by 0 < gamma < 1, with a reward and with
\* target slots that differ
C13_Witness ==
  /\ qpc = "backed"
  /\ 0 < gamma[1] /\ gamma[1] < gamma[2]
  /\ \E b \in Batch :
       /\ ~done_ph[b]
       /\ rew_t_ph[b] > 0
       /\ \E i \in Quants : \E j \in Quants :
            target_z[b][i] # target_z[b][j] /\ backup_z[b][i] # backup_z[b][j]

(***************************************************************************)
(* QRDQN._compute_estimate on one batch                                    *)
(***************************************************************************)
\* a_mask = tf.one_hot(self.act_t_ph, self.n_actions), expanded on the last axis
AMaskAll(act) == [b \in Batch |-> [a \in Acts |-> 1]]
AMask(act) == [b \in Batch |-> OneHot(act[b], NActions)]

\* z = tf.reduce_sum(agent_net * a_mask, axis=1)
ComputeEstimate(net, act) == [b \in Batch |-> [i \in Quants |->
   ReduceSumInt([a \in Acts |-> net[b][a][i] * AMask(act)[b][a]])]]

EstimatePositions == NetPositions \cup {<<"act", b, 0>> : b \in Batch}

\* the agent network output and the actions taken are fed
InitEstimate ==
  /\ IdleQR
  /\ IdleLoss
  /\ IdleB
  /\ IdleIDS
  /\ IdleExtButEst
  /\ \E S \in SubsetsUpTo(EstimatePositions, MaxHot) : \E f \in [S -> 1 .. MaxVal] :
       LET feed == Feed(EstimatePositions, S, f)
       IN  /\ \A b \in Batch : feed[<<"act", b, 0>>] \in Acts
           /\ e_agent_net = NetTensor(feed)
           /\ e_act_t_ph = [b \in Batch |-> feed[<<"act", b, 0>>]]
  /\ e_z = <<>>
  /\ e_pc = "fed"

QRComputeEstimate ==
  /\ e_pc = "fed"
  /\ e_z' = ComputeEstimate(e_agent_net, e_act_t_ph)
  /\ e_pc' = "returned"
  /\ UNCHANGED <<e_agent_net, e_act_t_ph>>
  /\ UNCHANGED OthersEst

NextEstimate == QRComputeEstimate

SpecEstimate == InitEstimate /\ [][NextEstimate]_vars

\* C14: for every batch row the estimate is exactly the N agent-side quantile
\* values of the action taken, agent_net[b, act_t[b], :], whatever the values
\* of the other actions are.
C14_EstimateIsTakenAction ==
  e_pc = "returned" =>
    \A b \in Batch : \A i \in Quants : e_z[b][i] = e_agent_net[b][e_act_t_ph[b]][i]

\* a row whose taken action is not the first, while another action of the row
\* holds a value that the estimate leaves out
C14_Witness ==
  /\ e_pc = "returned"
  /\ \E b \in Batch : \E a \in Acts : \E i \in Quants :
       /\ e_act_t_ph[b] # 0
       /\ a # e_act_t_ph[b]
       /\ e_agent_net[b][a][i] > 0
       /\ e_z[b][i] # e_agent_net[b][a][i]

(***************************************************************************)
(* QRDQN.__init__ and BDQN.__init__                                        *)
(***************************************************************************)
MaxCfg == 3        \* the numeric arguments of a constructor range over -MaxCfg..MaxCfg

\* BLR(tau, sigma_e, mode): a posterior is built only from positive tau and sigma_e
BLRAccepts(t, s) == t > 0 /\ s > 0

\* the calls QRDQN(N, k, ...) and BDQN(sigma_e, tau, ...)
InitCtor ==
  /\ IdleQR
  /\ IdleLoss
  /\ IdleB
  /\ IdleIDS
  /\ IdleExtButCtor
  /\ \/ /\ c_class = "QRDQN"
        /\ c_args \in [N : (0 - MaxCfg) .. MaxCfg, k : 0 .. MaxK]
     \/ /\ c_class = "BDQN"
        /\ c_args \in [sigma_e : (0 - MaxCfg) .. MaxCfg, tau : (0 - MaxCfg) .. MaxCfg]
  /\ c_self = <<>>
  /\ c_pc = "called"

\* QRDQN.__init__: super().__init__(**kwargs); self.N = N; self.k = k
QRDQNInit ==
  /\ c_pc = "called"
  /\ c_class = "QRDQN"
  /\ c_self' = [N |-> c_args.N, k |-> c_args.k]
  /\ c_pc' = "returned"
  /\ UNCHANGED <<c_class, c_args>>
  /\ UNCHANGED OthersCtor

\* BDQN.__init__: super().__init__(**kwargs); one BLR(tau, sigma_e) per action
\* for the agent and for the target
BDQNInit ==
  /\ c_pc = "called"
  /\ c_class = "BDQN"
  /\ IF BLRAccepts(c_args.tau, c_args.sigma_e)
       THEN /\ c_self' = [agent_blr  |-> [a \in Acts |-> [tau |-> c_args.tau, sigma_e |-> c_args.sigma_e]],
                          target_blr |-> [a \in Acts |-> [tau |-> c_args.tau, sigma_e |-> c_args.sigma_e]]]
            /\ c_pc' = "returned"
       ELSE /\ c_self' = c_self
            /\ c_pc' = "raised"
  /\ UNCHANGED <<c_class, c_args>>
  /\ UNCHANGED OthersCtor

NextCtor == QRDQNInit \/ BDQNInit

SpecCtor == InitCtor /\ [][NextCtor]_vars

\* the configuration of the call is invalid
InvalidConfig ==
  \/ c_class = "QRDQN" /\ c_args.N <= 0
  \/ c_class = "BDQN" /\ (c_args.sigma_e <= 0 \/ c_args.tau <= 0)

\* C15: constructing a QRDQN with N <= 0, or a BDQN with sigma_e <= 0 or
\* tau <= 0, fails at construction: no model holding the invalid value is
\* returned.
C15_InvalidConfigFails ==
  (c_pc \in {"returned", "raised"} /\ InvalidConfig) => c_pc = "raised"

(***************************************************************************)
(* QRDQN._compute_z_variance on one batch                                  *)
(***************************************************************************)
\* center = z - tf.reduce_mean(z, axis=-1, keepdims=True)
ZCenter(z) == [b \in Batch |-> [a \in Acts |-> [i \in Quants |->
   QSub(QInt(z[b][a][i]), ReduceMeanInt(z[b][a]))]]]

\* z_var = tf.reduce_mean(tf.square(center), axis=-1)
ZVarRaw(z) == [b \in Batch |-> [a \in Acts |->
   ReduceMean([i \in Quants |-> QMul(ZCenter(z)[b][a][i], ZCenter(z)[b][a][i])])]]

\* mean = tf.reduce_mean(z_var, axis=-1, keepdims=True)
ZVarMean(z) == [b \in Batch |-> ReduceMean(ZVarRaw(z)[b])]

\* z_var = z_var / mean when normalize, z_var otherwise
ComputeZVariance(z, normalize) == [b \in Batch |-> [a \in Acts |->
   IF normalize THEN FDiv(Fin(ZVarRaw(z)[b][a]), Fin(ZVarMean(z)[b]))
                ELSE Fin(ZVarRaw(z)[b][a])]]

InitZVar ==
  /\ IdleQR
  /\ IdleLoss
  /\ IdleB
  /\ IdleIDS
  /\ IdleExtButZVar
  /\ \E S \in SubsetsUpTo(NetPositions, MaxHot) : \E f \in [S -> 1 .. MaxVal] :
       zv_z = NetTensor(Feed(NetPositions, S, f))
  /\ zv_normalize \in BOOLEAN
  /\ zv_out = <<>>
  /\ zv_pc = "fed"

QRComputeZVariance ==
  /\ zv_pc = "fed"
  /\ zv_out' = ComputeZVariance(zv_z, zv_normalize)
  /\ zv_pc' = "returned"
  /\ UNCHANGED <<zv_z, zv_normalize>>
  /\ UNCHANGED OthersZVar

NextZVar == QRComputeZVariance

SpecZVar == InitZVar /\ [][NextZVar]_vars

\* C16: with normalize=True, for every input z, also one whose unnormalized
\* per-action variances are all zero, the values returned for a batch row have
\* mean exactly 1 over the action axis.
C16_NormalizedMeanIsOne ==
  (zv_pc = "returned" /\ zv_normalize) =>
    \A b \in Batch :
      /\ \A a \in Acts : IsFinite(zv_out[b][a])
      /\ QEq(ReduceMean([a \in Acts |-> zv_out[b][a].q]), QInt(1))

(***************************************************************************)
(* The gradient of the QRDQN loss with respect to the estimate.  A node of *)
(* the graph is a pair [val, tan]: its value and its derivative with       *)
(* respect to the entry z[b, i] that its row of td_z is built from.        *)
(***************************************************************************)
MaxPert == 1       \* the perturbation of the indicator's tangent ranges over 0..MaxPert

Dual(v, t) == [val |-> v, tan |-> t]
DSub(x, y) == Dual(QSub(x.val, y.val), QSub(x.tan, y.tan))
DMul(x, y) == Dual(QMul(x.val, y.val), QAdd(QMul(x.tan, y.val), QMul(x.val, y.tan)))
\* tf.abs: the gradient is sign(x)
DAbs(x) == Dual(QAbs(x.val),
                IF x.val[1] > 0 THEN x.tan
                ELSE IF x.val[1] < 0 THEN QSub(QInt(0), x.tan) ELSE QInt(0))
\* tf_ops.huber_loss(x, delta): the gradient is x inside the quadratic zone
\* and delta * sign(x) outside
DHuber(x, delta) ==
  Dual(HuberLoss(x.val[1], delta),
       IF QLt(QAbs(x.val), QInt(delta))
         THEN QMul(x.val, x.tan)
         ELSE QMul(QInt(IF x.val[1] < 0 THEN 0 - delta ELSE delta), x.tan))

\* tf.stop_gradient: the value passes, the gradient does not
StopGradientIdentity(x) == x
StopGradient(x) == Dual(x.val, QInt(0))

\* td_z[b, i, j] = target_z[b, j] - z[b, i]
GradTdZ(z, tz, b, i, j) == Dual(QInt(tz[b][j] - z[b][i]), QInt(0 - 1))

\* indicator_fn = tf.to_float(td_z < 0.0), its tangent perturbed by p
GradIndicator(td, p) == Dual(QInt(IF td.val[1] < 0 THEN 1 ELSE 0), QInt(p))

\* quant_weight = tf.stop_gradient(mid_quantiles - indicator_fn)
GradQuantWeight(td, i, j, p) ==
  StopGradient(DSub(Dual(BroadcastMid(i, j), QInt(0)), GradIndicator(td, p)))

\* quantile_loss[b, i, j]
GradEntryLoss(z, tz, order, p, b, i, j) ==
  LET td == GradTdZ(z, tz, b, i, j)
  IN  IF order = 0
        THEN DMul(GradQuantWeight(td, i, j, p), td)
        ELSE DMul(DAbs(GradQuantWeight(td, i, j, p)), DHuber(td, order))

\* d loss / d z[b, i]: reduce_mean over j, reduce_sum over i, reduce_mean over b
LossGradient(z, tz, order, p) == [b \in Batch |-> [i \in Quants |->
   QDivInt(ReduceMean([j \in Quants |-> GradEntryLoss(z, tz, order, p, b, i, j).tan]), NBatch)]]

InitGrad ==
  /\ IdleQR
  /\ IdleLoss
  /\ IdleB
  /\ IdleIDS
  /\ IdleExtButGrad
  /\ \E S \in SubsetsUpTo(LossPositions, MaxHot) : \E f \in [S -> 1 .. MaxVal] :
       LET feed == Feed(LossPositions, S, f)
       IN  /\ g_z = [b \in Batch |-> [i \in Quants |-> feed[<<"estimate", b, i>>]]]
           /\ g_target = [b \in Batch |-> [i \in Quants |-> feed[<<"target", b, i>>]]]
  /\ g_k \in 0 .. MaxK
  /\ g_pert \in 0 .. MaxPert
  /\ g_grad = <<>>
  /\ g_pc = "fed"

ComputeGradient ==
  /\ g_pc = "fed"
  /\ g_grad' = LossGradient(g_z, g_target, g_k, g_pert)
  /\ g_pc' = "done"
  /\ UNCHANGED <<g_z, g_target, g_k, g_pert>>
  /\ UNCHANGED OthersGrad

NextGrad == ComputeGradient

SpecGrad == InitGrad /\ [][NextGrad]_vars

\* 2N times the weight that multiplies entry (i, j) of row b
GradWeightUnits(b, i, j) ==
  LET d == g_target[b][j] - g_z[b][i]
      w == BroadcastMid(i, j)[1] - (IF d < 0 THEN BroadcastMid(i, j)[2] ELSE 0)
  IN  IF g_k = 0 THEN w ELSE Abs(w)

\* the derivative of the entry's loss term with respect to its difference
GradSlope(b, i, j) ==
  LET d == g_target[b][j] - g_z[b][i]
  IN  IF g_k = 0 THEN 1
      ELSE IF Abs(d) < g_k THEN d
      ELSE IF d < 0 THEN 0 - g_k ELSE g_k

\* C17: for k = 0 and for k > 0 the gradient of the loss with respect to the
\* network outputs takes the weight (tau - 1[delta<0]) as a constant: it is
\* -(1 / (B * N)) * sum_j weight * slope, whatever is fed back through the
\* indicator term.
C17_IndicatorIsConstant ==
  g_pc = "done" =>
    \A b \in Batch : \A i \in Quants :
      QEq(g_grad[b][i],
          <<0 - SumTo([j \in Quants |-> GradWeightUnits(b, i, j) * GradSlope(b, i, j)], NQuant),
            2 * NQuant * NQuant * NBatch>>)

\* a perturbed indicator under k > 0, with a non-zero gradient and entries on
\* both sides of the indicator
C17_Witness ==
  /\ g_pc = "done"
  /\ g_k > 0
  /\ g_pert > 0
  /\ \E b \in Batch : \E i \in Quants : g_grad[b][i][1] # 0
  /\ \E b \in Batch : \E i \in Quants : \E j \in Quants : g_target[b][j] - g_z[b][i] < 0
  /\ \E b \in Batch : \E i \in Quants : \E j \in Quants : g_target[b][j] - g_z[b][i] > 0

\* a perturbed indicator under k = 0 with a non-zero gradient
C17_WitnessPinball ==
  /\ g_pc = "done"
  /\ g_k = 0
  /\ g_pert > 0
  /\ \E b \in Batch : \E i \in Quants : g_grad[b][i][1] # 0
  /\ \E b \in Batch : \E i \in Quants : \E j \in Quants : g_target[b][j] - g_z[b][i] < 0

(***************************************************************************)
(* BDQN._conv_nn: the calls made while the graph is built                  *)
(***************************************************************************)
MaxCalls == 3      \* calls of _conv_nn on one model

\* None, and Some(v) for a value held
None == <<>>
Some(v) == <<v>>

\* the variable scopes _conv_nn is called in, as paths of scope names
Scopes == {<<"agent_net", "action_value">>, <<"target_net", "action_value">>,
           <<"agent_net_1", "action_value">>}

\* the scope names that hold the substring "agent_net"
HasAgentNet(name) == name \in {"agent_net", "agent_net_1"}

\* "agent_net" in tf.get_variable_scope().name
InAgentScope(scope) == \E n \in 1 .. Len(scope) : HasAgentNet(scope[n])

\* blrs = self.agent_blr if "agent_net" in scope name else self.target_blr
BlrsOf(scope) == IF InAgentScope(scope) THEN "agent" ELSE "target"

\* blr_out = [blr.apply(x) for blr in blrs]: the (mean, var) prediction of
\* every posterior of the side on the features x
BlrOut(side, x) == [a \in Acts |-> [mean |-> <<"mean", side, a, x>>,
                                    var  |-> <<"var", side, a, x>>]]

\* if "agent_net" in scope name and self._phi is None
RemembersAlways(scope, phi) == InAgentScope(scope)
Remembers(scope, phi) == InAgentScope(scope) /\ phi = None

\* the state after BDQN.__init__
InitConv ==
  /\ IdleQR
  /\ IdleLoss
  /\ IdleB
  /\ IdleIDS
  /\ IdleExtButConv
  /\ cv_phi = None
  /\ cv_a_var = None
  /\ cv_out = <<>>
  /\ cv_calls = <<>>

\* self._conv_nn(x) inside the variable scope `scope`
ConvNN ==
  /\ Len(cv_calls) < MaxCalls
  /\ \E scope \in Scopes : \E x \in 1 .. MaxVal :
       LET blr_out == BlrOut(BlrsOf(scope), x)
       IN  /\ IF Remembers(scope, cv_phi)
                THEN /\ cv_phi' = Some(x)
                     /\ cv_a_var' = [a \in Acts |-> blr_out[a].var]
                ELSE UNCHANGED <<cv_phi, cv_a_var>>
           /\ cv_out' = [a \in Acts |-> blr_out[a].mean]
           /\ cv_calls' = Append(cv_calls, [scope |-> scope, x |-> x])
  /\ UNCHANGED OthersConv

NextConv == ConvNN

SpecConv == InitConv /\ [][NextConv]_vars

\* the positions of the agent-scope calls made so far
AgentCalls == {n \in 1 .. Len(cv_calls) : cv_calls[n].scope[1] # "target_net"}

\* the first of them
FirstAgentCall == CHOOSE n \in AgentCalls : \A m \in AgentCalls : n <= m

\* C18: after any sequence of _conv_nn calls, _phi and a_var hold the features
\* and the agent posteriors' variances of the first agent-scope call (and are
\* unset before one); the call made last applied the agent posteriors only if
\* made in an agent scope and the target posteriors only otherwise.
C18_FirstAgentCallRemembered ==
  /\ AgentCalls = {} => cv_phi = None /\ cv_a_var = None
  /\ AgentCalls # {} =>
       /\ cv_phi = Some(cv_calls[FirstAgentCall].x)
       /\ cv_a_var = [a \in Acts |-> <<"var", "agent", a, cv_calls[FirstAgentCall].x>>]
  /\ cv_calls # <<>> =>
       LET last == cv_calls[Len(cv_calls)]
       IN  cv_out = [a \in Acts |->
             <<"mean", IF last.scope[1] = "target_net" THEN "target" ELSE "agent", a, last.x>>]

\* an agent call, then a target call and a second agent call on other features
C18_Witness ==
  /\ Len(cv_calls) = 3
  /\ cv_calls[1].scope[1] = "agent_net"
  /\ cv_calls[2].scope[1] = "target_net"
  /\ cv_calls[3].scope[1] # "target_net"
  /\ cv_calls[2].x # cv_calls[1].x
  /\ cv_calls[3].x # cv_calls[1].x

(***************************************************************************)
(* VideoPlotter._configure_obs_align and VideoPlotter._fix_obs_align       *)
(***************************************************************************)
MaxSide == 4       \* image and frame sides range over 1..MaxSide

\* int(n / 2.0): the quotient truncated toward zero
IntHalf(n) == IF n >= 0 THEN n \div 2 ELSE 0 - ((0 - n) \div 2)

\* the observation size _configure_obs_align works with: the Box shape when
\* known, else self.height - 2 and self.width - 2
ObsSizeAtConfig(space, h, w) == IF space # <<>> THEN space ELSE <<h - 2, w - 2>>

\* top for spec["vertical"]
AlignTop(vertical, h, oh) ==
  CASE vertical = "center" -> IntHalf(h - oh)
    [] vertical = "top"    -> 0
    [] vertical = "bottom" -> h - oh

\* left for spec["horizontal"]
AlignLeft(horizontal, w, ow) ==
  CASE horizontal = "center" -> IntHalf(w - ow)
    [] horizontal = "left"   -> 0
    [] horizontal = "right"  -> w - ow

Sides == 1 .. MaxSide

\* activate has parsed the layout's width and height and is about to call
\* _configure_obs_align(layout["obs_align"])
InitAlign ==
  /\ IdleQR
  /\ IdleLoss
  /\ IdleB
  /\ IdleIDS
  /\ IdleExtButVP
  /\ width \in 3 .. MaxSide
  /\ height \in 3 .. MaxSide
  /\ obs_top = None
  /\ obs_left = None
  /\ obs_align = FALSE
  /\ \/ vp_space = <<>>
     \/ \E oh \in Sides : \E ow \in Sides :
          oh <= height /\ ow <= width /\ vp_space = <<oh, ow>>
  /\ vp_spec \in [vertical : {"center", "top", "bottom"},
                  horizontal : {"center", "left", "right"}]
  /\ vp_frame = <<>>
  /\ vp_pc = "activating"

\* self._configure_obs_align(spec)
ConfigureObsAlign ==
  /\ vp_pc = "activating"
  /\ LET size == ObsSizeAtConfig(vp_space, height, width)
         t    == AlignTop(vp_spec.vertical, height, size[1])
         l    == AlignLeft(vp_spec.horizontal, width, size[2])
     IN  /\ obs_top' = t
         /\ obs_left' = l
         /\ obs_align' = (t >= 0 /\ l >= 0)
  /\ vp_pc' = "configured"
  /\ UNCHANGED <<width, height, vp_space, vp_spec, vp_frame>>
  /\ UNCHANGED OthersVP

\* self._fix_obs_align(obs) on the first frame rendered, of the Box shape
\* when the observation space has one
FixObsAlign ==
  /\ vp_pc = "configured"
  /\ \E fh \in Sides : \E fw \in Sides :
       /\ vp_space # <<>> => vp_space = <<fh, fw>>
       /\ vp_frame' = <<fh, fw>>
       /\ IF obs_align
            THEN /\ vp_pc' = "fixed"
                 /\ UNCHANGED <<obs_top, obs_left, obs_align>>
            ELSE IF ~(fh <= height /\ fw <= width)
            THEN /\ vp_pc' = "raised"
                 /\ UNCHANGED <<obs_top, obs_left, obs_align>>
            ELSE /\ obs_top' = (IF obs_top = 0 - 1 THEN IntHalf(height - fh)
                                ELSE IF obs_top = 0 - 2 THEN height - fh ELSE obs_top)
                 /\ obs_left' = (IF obs_left = 0 - 1 THEN IntHalf(width - fw)
                                 ELSE IF obs_left = 0 - 2 THEN width - fw ELSE obs_left)
                 /\ obs_align' = TRUE
                 /\ vp_pc' = "fixed"
  /\ UNCHANGED <<width, height, vp_space, vp_spec>>
  /\ UNCHANGED OthersVP

NextAlign == ConfigureObsAlign \/ FixObsAlign

SpecAlign == InitAlign /\ [][NextAlign]_vars

\* C19: with an observation size unknown at configuration time and 'center',
\* 'bottom' or 'right' alignment, _configure_obs_align stores -1 (center) or -2
\* (bottom, right) in obs_top / obs_left and leaves obs_align False, and
\* _fix_obs_align on the first frame then computes non-negative offsets with
\* top + frame height <= height and left + frame width <= width.
C19_SentinelThenFixed ==
  (vp_space = <<>> /\ vp_pc \in {"configured", "fixed"}
     /\ (vp_spec.vertical # "top" \/ vp_spec.horizontal # "left")) =>
    /\ vp_pc = "configured" =>
         /\ vp_spec.vertical = "center" => obs_top = 0 - 1
         /\ vp_spec.vertical = "bottom" => obs_top = 0 - 2
         /\ vp_spec.horizontal = "center" => obs_left = 0 - 1
         /\ vp_spec.horizontal = "right" => obs_left = 0 - 2
         /\ ~obs_align
    /\ vp_pc = "fixed" =>
         /\ obs_top >= 0 /\ obs_left >= 0
         /\ obs_top + vp_frame[1] <= height
         /\ obs_left + vp_frame[2] <= width

(***************************************************************************)
(* VideoPlotter: activate, reset and render on one plotter                 *)
(***************************************************************************)
MaxVCalls == 3     \* calls made on one plotter

\* the model classes activate is called with, and those of them that
\* rltf.utils.layouts.layouts holds a layout for
Classes == {"BDQN_IDS", "DQN"}
LayoutClasses == {"BDQN_IDS"}

\* the obs_align entries of the registered layouts
ObsAlignSpecs == {[vertical |-> "center", horizontal |-> "center"],
                  [vertical |-> "top", horizontal |-> "left"]}

\* the frames env.render() returns
Frames == {<<1, 1>>, <<MaxSide, MaxSide>>}

\* layout = layouts.layouts.get(model_class, None)
LayoutGet(class) ==
  IF class \in LayoutClasses
    THEN Some([width |-> MaxSide, height |-> MaxSide, obs_align |-> vp_spec])
    ELSE None

\* the test on the fetched layout, which the code does not make
NoLayoutTestOnLayout(layout) == layout = None
\* `if layouts is None`: the object tested is the imported module
\* rltf.utils.layouts, which is never None, whatever the layout fetched is
NoLayoutTest(layout) == FALSE

\* the state after VideoPlotter.__init__(env, mode)
InitPlotter ==
  /\ IdleQR
  /\ IdleLoss
  /\ IdleB
  /\ IdleIDS
  /\ IdleExtButLife
  /\ allowed = FALSE
  /\ enabled = FALSE
  /\ changed = TRUE
  /\ image = None
  /\ plot_conf = None
  /\ plot_data_id = None
  /\ hooks = None
  /\ figs = None
  /\ width = None
  /\ height = None
  /\ obs_top = None
  /\ obs_left = None
  /\ obs_align = FALSE
  /\ lp_mode \in {"t", "e"}
  /\ vp_space \in {<<>>} \cup Frames
  /\ vp_spec \in ObsAlignSpecs
  /\ vp_frame = <<>>
  /\ vp_pc = "idle"
  /\ lp_data = 0
  /\ lp_active = FALSE
  /\ lp_last = <<>>
  /\ lp_n = 0

\* one more call on the plotter
Called(name, arg, out, ret, warn) ==
  /\ lp_n < MaxVCalls
  /\ lp_n' = lp_n + 1
  /\ lp_last' = [call |-> name, arg |-> arg, out |-> out, ret |-> ret, warn |-> warn]

\* what activate leaves alone
ActivateKeeps == <<enabled, changed, image, plot_data_id, lp_mode, lp_data, lp_active,
                   vp_space, vp_spec, vp_frame, vp_pc>>

\* VideoPlotter.activate(model_class); vplot_manager.get_plot_conf returns the
\* TensorPlotConf of the class, whose train and eval specs may be empty
Activate ==
  /\ \E class \in Classes : \E tr \in BOOLEAN : \E ev \in BOOLEAN :
       LET layout == LayoutGet(class)
           conf   == [train |-> tr, eval |-> ev]
           wanted == IF lp_mode = "t" THEN tr ELSE ev
       IN  IF NoLayoutTest(layout)
             THEN /\ Called("activate", class, "return", None, "no layout")
                  /\ UNCHANGED <<plot_conf, hooks, width, height, obs_top, obs_left,
                                 obs_align, figs, allowed>>
           ELSE IF ~tr /\ ~ev
             THEN /\ plot_conf' = Some(conf)
                  /\ Called("activate", class, "return", None, "tensors not set")
                  /\ UNCHANGED <<hooks, width, height, obs_top, obs_left, obs_align,
                                 figs, allowed>>
           ELSE IF ~wanted
             THEN /\ plot_conf' = Some(conf)
                  /\ Called("activate", class, "return", None, "none")
                  /\ UNCHANGED <<hooks, width, height, obs_top, obs_left, obs_align,
                                 figs, allowed>>
           ELSE IF layout = None
             \* layout["width"] on None
             THEN /\ plot_conf' = Some(conf)
                  /\ hooks' = Some(lp_mode)
                  /\ Called("activate", class, "raise", "TypeError", "none")
                  /\ UNCHANGED <<width, height, obs_top, obs_left, obs_align, figs, allowed>>
           ELSE LET size == ObsSizeAtConfig(vp_space, layout[1].height, layout[1].width)
                    t    == AlignTop(layout[1].obs_align.vertical, layout[1].height, size[1])
                    l    == AlignLeft(layout[1].obs_align.horizontal, layout[1].width, size[2])
                IN  /\ plot_conf' = Some(conf)
                    /\ hooks' = Some(lp_mode)
                    /\ width' = layout[1].width
                    /\ height' = layout[1].height
                    /\ obs_top' = t
                    /\ obs_left' = l
                    /\ obs_align' = (t >= 0 /\ l >= 0)
                    /\ figs' = Some(None)
                    /\ allowed' = TRUE
                    /\ Called("activate", class, "return", None, "none")
  /\ UNCHANGED ActivateKeeps
  /\ UNCHANGED OthersLife

\* `if not self.allowed: return`
ResetReturnsAtOnceNever == FALSE
ResetReturnsAtOnce == ~allowed

\* VideoPlotter.reset(enabled)
Reset ==
  /\ \E en \in BOOLEAN :
       /\ Called("reset", en, "return", None, "none")
       /\ IF ResetReturnsAtOnce
            THEN UNCHANGED <<figs, image, lp_active, plot_data_id, enabled>>
            ELSE /\ figs' = (IF enabled THEN Some(None) ELSE figs)
                 /\ image' = (IF en THEN Some([obs |-> None, figs |-> None])
                              ELSE IF enabled THEN None ELSE image)
                 /\ lp_active' = (en \/ lp_active)
                 /\ plot_data_id' = (IF en THEN Some(lp_data) ELSE plot_data_id)
                 /\ enabled' = en
  /\ UNCHANGED <<allowed, changed, plot_conf, hooks, lp_mode, lp_data>>
  /\ UNCHANGED varsVP
  /\ UNCHANGED OthersLife

\* the frame fits into the image at (top, left): the slice
\* self.image[top:bottom, left:right, :] has the shape of the frame
Fits(frame, t, l) == t + frame[1] <= height /\ l + frame[2] <= width

\* `if (not self.enabled) or (not self.allowed): return obs`
RenderIsNoOp == ~enabled \/ ~allowed

\* VideoPlotter.render(obs, mode)
Render ==
  /\ \E obs \in {None} \cup {Some(f) : f \in Frames} : \E mode \in {"rgb_array", "human"} :
       IF RenderIsNoOp
         THEN /\ Called("render", obs, "return", obs, "none")
              /\ UNCHANGED <<obs_top, obs_left, obs_align, changed, plot_data_id, figs, image>>
       ELSE IF obs = None
         THEN /\ Called("render", obs, "return", None, "none")
              /\ UNCHANGED <<obs_top, obs_left, obs_align, changed, plot_data_id, figs, image>>
       ELSE IF mode # "rgb_array"
         THEN /\ Called("render", obs, "raise", "AssertionError", "none")
              /\ UNCHANGED <<obs_top, obs_left, obs_align, changed, plot_data_id, figs, image>>
       ELSE IF ~obs_align /\ ~(obs[1][1] <= height /\ obs[1][2] <= width)
         \* the assert of _fix_obs_align
         THEN /\ Called("render", obs, "raise", "AssertionError", "none")
              /\ UNCHANGED <<obs_top, obs_left, obs_align, changed, plot_data_id, figs, image>>
       ELSE LET t   == IF obs_align THEN obs_top
                       ELSE IF obs_top = 0 - 1 THEN IntHalf(height - obs[1][1])
                       ELSE IF obs_top = 0 - 2 THEN height - obs[1][1] ELSE obs_top
                l   == IF obs_align THEN obs_left
                       ELSE IF obs_left = 0 - 1 THEN IntHalf(width - obs[1][2])
                       ELSE IF obs_left = 0 - 2 THEN width - obs[1][2] ELSE obs_left
                new == Some(lp_data) # plot_data_id
                drawn == IF new THEN Some(Some(lp_data)) ELSE figs
            IN  /\ obs_top' = t
                /\ obs_left' = l
                /\ obs_align' = TRUE
                \* _render_plots
                /\ changed' = new
                /\ plot_data_id' = Some(lp_data)
                /\ figs' = drawn
                \* _overlay_image of the frame, then of the figures
                /\ IF Fits(obs[1], t, l)
                     THEN LET img == Some([obs  |-> Some(<<t, l, obs[1]>>),
                                           figs |-> IF new THEN drawn[1] ELSE image[1].figs])
                          IN  /\ image' = img
                              /\ Called("render", obs, "return", img, "none")
                     ELSE /\ image' = image
                          /\ Called("render", obs, "raise", "ValueError", "none")
  /\ UNCHANGED <<allowed, enabled, plot_conf, hooks, lp_mode, lp_data, lp_active>>
  /\ UNCHANGED <<width, height, vp_space, vp_spec, vp_frame, vp_pc>>
  /\ UNCHANGED OthersLife

\* the TensorPlotConf holds a new plot data dictionary
NewPlotData ==
  /\ lp_data < MaxVCalls
  /\ lp_data' = lp_data + 1
  /\ UNCHANGED <<allowed, enabled, changed, image, plot_conf, plot_data_id, hooks, figs,
                 lp_mode, lp_active, lp_last, lp_n>>
  /\ UNCHANGED varsVP
  /\ UNCHANGED OthersLife

NextPlotter == Activate \/ Reset \/ Render \/ NewPlotData

SpecPlotter == InitPlotter /\ [][NextPlotter]_vars

\* C20: after activate with a model class that has no registered layout, the
\* call has returned without raising, a warning that plots will not be
\* included in the video was logged, and allowed is False.
C20_NoLayoutWarnsAndReturns ==
  (lp_n > 0 /\ lp_last.call = "activate" /\ lp_last.arg \notin LayoutClasses) =>
    /\ lp_last.out = "return"
    /\ lp_last.warn \in {"no layout", "tensors not set"}
    /\ allowed = FALSE

\* a render call made while the plotter is not both allowed and enabled
\* returns the frame it was given and leaves the plotter as it was
IdleRenderKeeps ==
  (/\ ~(allowed /\ enabled)
   /\ lp_n' = lp_n + 1
   /\ lp_last'.call = "render") =>
    /\ lp_last'.out = "return"
    /\ lp_last'.ret = lp_last'.arg
    /\ UNCHANGED <<allowed, enabled, changed, image, plot_conf, plot_data_id, hooks, figs,
                   lp_mode, lp_data, lp_active>>
    /\ UNCHANGED varsVP

\* C21: in every state reached by activate, reset and render calls, enabled
\* is True only if allowed is True and the image buffer is not None; and a
\* render call on a plotter that is not both allowed and enabled returns its
\* input frame and changes no state of the plotter.
C21_EnabledOnlyIfReady ==
  /\ [](enabled => (allowed /\ image # None))
  /\ [][IdleRenderKeeps]_vars

\* render has returned the frame it was given on a configured plotter that
\* is not enabled for the episode
C21_Witness ==
  /\ lp_n > 0
  /\ lp_last.call = "render"
  /\ allowed
  /\ ~enabled
  /\ lp_last.arg # None
  /\ lp_last.ret = lp_last.arg

\* the plotter is enabled for the episode and has rendered a composite image
C21_WitnessEnabled ==
  /\ lp_n > 0
  /\ lp_last.call = "render"
  /\ enabled
  /\ allowed
  /\ image # None
  /\ lp_last.ret = image

====
